---- MODULE Spec2Model ----
(***************************************************************************)
(* State-machine model of the scraper service of dbluklee/uncommon:        *)
(* the trigger endpoint and the background crawl task (scraper/main.py)    *)
(* and the crawler, extractor, locale merge and image pipeline             *)
(* (scraper/scraper.py) over the tables of scraper/models.py.              *)
(*                                                                         *)
(* Text is modelled as a sequence of one-character strings where the code  *)
(* inspects it (the keywords field), and as an opaque string where the     *)
(* code copies it verbatim.                                                *)
(***************************************************************************)
EXTENDS Integers, Sequences, FiniteSets, TLC

\* ------------------------------------------------------------------ bounds

\* Trigger requests accepted in one behaviour (rows of scraping_jobs created).
MaxJobs == 2

\* Pieces a generated keywords field is made of (see NameFields).
MaxTokens == 5

\* img elements of a generated item page (see ImageLists).
MaxImages == 3

\* Calls of _scrape_single_product in one behaviour of SpecMerge.
MaxCalls == 2

\* The listing pages one pass of the model requests at most; the loop of
\* scrape_products itself has no such limit.
MaxPages == 6

\* ------------------------------------------------------------- constants

Locales == {"global", "kr"}

\* ScrapeRequest.max_products = None (no cap).
NoCap == -1

\* ScrapeRequest.url = None, and a nullable URL column holding NULL.
NoUrl == [host |-> "", path |-> ""]

TARGET_URL == [host |-> "ucmeyewear.earth", path |-> "category/all/87/"]

global_base_url == [host |-> "ucmeyewear.earth", path |-> "category/all/87/"]

kr_base_url == [host |-> "ucmeyewear.com", path |-> "product/list.html?cate_no=87"]

\* Site root used to absolutize a relative href.
SiteRoot(site_type) == IF site_type = "kr" THEN "ucmeyewear.com" ELSE "ucmeyewear.earth"

\* The listing the crawl of one locale paginates.
BaseUrl(site_type) == IF site_type = "kr" THEN kr_base_url ELSE global_base_url

\* Variant: fetches and delays that are awaited.
BlockingIOAwaited == FALSE

\* requests.Session.get and time.sleep are synchronous calls inside async
\* functions: a fetch or a delay does not return control to the event loop.
BlockingIO == TRUE

\* ------------------------------------------------------------------ text

SEP == <<" ", "-", " ">>

RECURSIVE LStrip(_)
LStrip(s) == IF s # <<>> /\ Head(s) = " " THEN LStrip(Tail(s)) ELSE s

RECURSIVE RStrip(_)
RStrip(s) == IF s # <<>> /\ s[Len(s)] = " " THEN RStrip(SubSeq(s, 1, Len(s) - 1)) ELSE s

\* str.strip()
Strip(s) == RStrip(LStrip(s))

\* Index of the first occurrence of pat in s, 0 when there is none (str.find + 1).
Find(s, pat) ==
    LET hits == {i \in 1..(Len(s) - Len(pat) + 1) : SubSeq(s, i, i + Len(pat) - 1) = pat}
    IN IF hits = {} THEN 0 ELSE CHOOSE i \in hits : \A k \in hits : i <= k

\* keywords_content.split(',')[0].strip()
FirstKeyword(content) ==
    LET c == Find(content, <<",">>)
    IN Strip(IF c = 0 THEN content ELSE SubSeq(content, 1, c - 1))

\* Variant: the keyword is split at the last separator (rsplit).
SplitNameColorLast(first_keyword) ==
    LET hits == {i \in 1..(Len(first_keyword) - Len(SEP) + 1) :
                    SubSeq(first_keyword, i, i + Len(SEP) - 1) = SEP}
        p == IF hits = {} THEN 0 ELSE CHOOSE i \in hits : \A k \in hits : i >= k
    IN IF p # 0
       THEN [product_name |-> Strip(SubSeq(first_keyword, 1, p - 1)),
             color        |-> Strip(SubSeq(first_keyword, p + Len(SEP), Len(first_keyword)))]
       ELSE [product_name |-> first_keyword, color |-> <<>>]

\* first_keyword.split(' - ', 1): name and color of the first keyword.
\* (The keyword and the index are bound as values, so that each is computed once.)
SplitNameColor(first_keyword) ==
    CHOOSE nc \in
        {IF p # 0
         THEN [product_name |-> Strip(SubSeq(k, 1, p - 1)),
               color        |-> Strip(SubSeq(k, p + Len(SEP), Len(k)))]
         ELSE [product_name |-> k, color |-> <<>>] :
            <<k, p>> \in {<<first_keyword, Find(first_keyword, SEP)>>}} : TRUE

\* ------------------------------------------------------------ site content

\* What the two storefronts serve; chosen at start and never changed by the program.
\*   site.listing[l] : the listing pages of locale l, page 1 first; a page is
\*       [status, markers] with status "ok" or "error" (transport error or HTTP
\*       error status); a marker is one div.prdImg: [kind, host, path], kind
\*       "slash" (href "/path"), "http" (absolute href), "bare" (href "path")
\*       or "nolink" (no a[href] inside it). Past the last page listed here the
\*       storefront serves a page without markers.
\*   site.item : item pages by absolute URL (see ItemPage).
VARIABLE site

\* Tables products, product_images, scraping_jobs; the id of a row is its index.
VARIABLES products, images, jobs

\* In-memory state of the service process: task[j] is the crawl task created for
\* job j (its position and locals), loop is the job whose task is running on the
\* event loop thread (0: the loop is idle and may start a handler or a task),
\* response is the answer to the last trigger request.
VARIABLES task, loop, response

\* The environment of the service process: whether REQUEST_TIMEOUT holds an
\* integer (it is read by int(os.getenv('REQUEST_TIMEOUT', '30'))), and whether
\* the database accepts the commit of the image rows of a product.
VARIABLE env

\* History: every outbound request in order (session.get of the crawler and the
\* POST to the indexing service), the outcome of every item processed, and a
\* summary of every locale pass that returned.
VARIABLES fetches, outcomes, passes

vars == <<site, env, products, images, jobs, task, loop, response, fetches, outcomes, passes>>

EmptyListingPage == [status |-> "ok", markers |-> <<>>]

\* response = session.get(page_url) of listing page n: the page served.
ListingPage(site_type, n) ==
    IF n <= Len(site.listing[site_type]) THEN site.listing[site_type][n]
    ELSE IF "tail" \in DOMAIN site THEN site.tail[site_type]
    ELSE EmptyListingPage

\* An item page that raises on fetch (unknown URL: HTTP 404, raise_for_status).
ErrorItemPage ==
    [status |-> "error", keywords |-> <<>>, price |-> "", reward |-> "", desc |-> "",
     notice |-> "", material |-> "", dims |-> <<"", "", "", "", "">>, marker |-> FALSE,
     imgs |-> <<>>]

\* response = session.get(product_url): the page served for url.
\*   status   "ok", "error" (fetch raises) or "bad" (markup the parser raises on)
\*   keywords content of meta[name=keywords], <<>> when absent
\*   price, reward  text of the price / mileage element, "" when absent
\*   desc, notice, material, dims  the DESCRIPTION block: free text, the text
\*       from the Notice mark on, the -Material line, the five size lines
\*   marker   whether the hidden 'sold out' button is in the page
\*   imgs     img.ThumbImage elements in document order: [form, ref, fetch]
ItemPage(url) == IF url \in DOMAIN site.item THEN site.item[url] ELSE ErrorItemPage

\* ---------------------------------------------------------------- frontier

\* Lines 128-141: the absolute URL of a marker's href.
FullUrl(m, site_type) ==
    IF m.kind = "http" THEN [host |-> m.host, path |-> m.path]
    ELSE [host |-> SiteRoot(site_type), path |-> m.path]

\* Variant: no link counts as already seen.
InSeqNever(x, s) == FALSE

\* Line 143: full_url not in all_product_links
InSeq(x, s) == \E i \in 1..Len(s) : s[i] = x

\* Lines 123-145: all_product_links after the markers of one page.
RECURSIVE AddPageLinks(_, _, _)
AddPageLinks(all_product_links, markers, site_type) ==
    IF markers = <<>> THEN all_product_links
    ELSE LET m == Head(markers)
             full_url == FullUrl(m, site_type)
         IN AddPageLinks(
                IF m.kind # "nolink" /\ ~InSeq(full_url, all_product_links)
                THEN Append(all_product_links, full_url) ELSE all_product_links,
                Tail(markers), site_type)

\* Variant: the loop ends at a page that yields no link.
FrontierStopsNoLink(page) == \A i \in 1..Len(page.markers) : page.markers[i].kind = "nolink"

\* Variant: the loop has no exit.
FrontierStopsNever(page) == FALSE

\* Lines 119-121: the loop ends at a page without markers.
FrontierStops(page) == page.markers = <<>>

\* Variant: the cap is not applied.
ProductsToScrapeUncapped(all_product_links, max_products) == all_product_links

\* Lines 169-173: the URLs a pass processes under cap max_products.
ProductsToScrape(all_product_links, max_products) ==
    IF max_products # NoCap /\ max_products # 0 /\ max_products > 0
    THEN SubSeq(all_product_links, 1,
                IF max_products < Len(all_product_links) THEN max_products
                ELSE Len(all_product_links))
    ELSE all_product_links

\* --------------------------------------------------------------- extractor

SizeKeys == <<"Lens Width", "Lens Height", "Bridge Width", "Frame Width", "Temple Length">>

\* _format_size_data: "Key: value" for every non-empty value, in key order.
FormatSizeData(dims) ==
    LET F[i \in 0..Len(dims)] ==
            IF i = 0 THEN <<>>
            ELSE IF dims[i] # "" THEN Append(F[i - 1], <<SizeKeys[i], dims[i]>>) ELSE F[i - 1]
    IN F[Len(dims)]

Segs(s) == IF s = "" THEN <<>> ELSE <<s>>

\* Variant: a record without product name is returned as data.
ExtractProductInfoNameless(page, site_type) ==
    LET nc == SplitNameColor(FirstKeyword(page.keywords))
    IN [found        |-> page.status = "ok",
        product_name |-> nc.product_name,
        color        |-> nc.color,
        price        |-> page.price,
        reward_points |-> page.reward,
        description  |-> Segs(page.desc)
                           \o (IF site_type = "global" THEN <<>> ELSE Segs(page.notice)),
        material     |-> page.material,
        size         |-> page.dims,
        isSoldout    |-> ~page.marker]

\* _extract_product_info: found = FALSE is the None result.
ExtractProductInfo(page, site_type) ==
    LET nc == SplitNameColor(FirstKeyword(page.keywords))
        found == page.status = "ok" /\ nc.product_name # <<>>
    IN [found        |-> found,
        product_name |-> nc.product_name,
        color        |-> nc.color,
        price        |-> page.price,
        reward_points |-> page.reward,
        description  |-> Segs(page.desc)
                           \o (IF site_type = "global" THEN <<>> ELSE Segs(page.notice)),
        material     |-> page.material,
        size         |-> page.dims,
        isSoldout    |-> ~page.marker]

\* _normalize_image_url: only a source starting with // is kept.
NormalizeImageUrl(img) ==
    IF img.form = "protocol_relative"
    THEN [keep |-> TRUE, url |-> [img EXCEPT !.form = "absolute"]]
    ELSE [keep |-> FALSE, url |-> img]

\* _extract_image_urls: the kept sources in document order.
ExtractImageUrls(page) ==
    LET F[i \in 0..Len(page.imgs)] ==
            IF i = 0 THEN <<>>
            ELSE LET n == NormalizeImageUrl(page.imgs[i])
                 IN IF page.imgs[i].form # "missing" /\ n.keep
                    THEN Append(F[i - 1], n.url) ELSE F[i - 1]
    IN F[Len(page.imgs)]

\* ------------------------------------------------------------ locale merge

EmptyLocaleMap(empty) == [l \in Locales |-> empty]

\* Variant: the lookup compares the locale's source URL.
ExistingProductByUrl(rows, data, product_url, site_type) ==
    {i \in 1..Len(rows) :
        IF site_type = "global" THEN rows[i].source_global_url = product_url
        ELSE rows[i].source_kr_url = product_url}

\* Variant: the lookup matches no row.
ExistingProductNever(rows, data, product_url, site_type) == {}

\* Lines 223-226: ids of the rows matching (product_name, color).
ExistingProduct(rows, data, product_url, site_type) ==
    {i \in 1..Len(rows) : rows[i].product_name = data.product_name /\ rows[i].color = data.color}

\* Variant: every locale is seeded with the extracted values and the URL.
CreateNewProductAllLocales(product_url, data, site_type) ==
    [source_global_url |-> product_url,
     source_kr_url     |-> product_url,
     product_name      |-> data.product_name,
     color             |-> data.color,
     price             |-> EmptyLocaleMap(data.price),
     reward_points     |-> EmptyLocaleMap(data.reward_points),
     description       |-> EmptyLocaleMap(data.description),
     material          |-> EmptyLocaleMap(data.material),
     size              |-> EmptyLocaleMap(FormatSizeData(data.size)),
     issoldout         |-> data.isSoldout,
     indexed           |-> FALSE,
     indexed_at        |-> 0,
     scraped_at        |-> [site_type |-> site_type, url |-> product_url]]

\* _create_new_product: the row added for an unseen identity. indexed and
\* indexed_at take the column defaults (False, NULL written 0); scraped_at, the
\* time of the insert, is named by the merge that made the insert.
CreateNewProduct(product_url, data, site_type) ==
    [source_global_url |-> IF site_type = "global" THEN product_url ELSE NoUrl,
     source_kr_url     |-> IF site_type = "kr" THEN product_url ELSE NoUrl,
     product_name      |-> data.product_name,
     color             |-> data.color,
     price             |-> [EmptyLocaleMap("") EXCEPT ![site_type] = data.price],
     reward_points     |-> [EmptyLocaleMap("") EXCEPT ![site_type] = data.reward_points],
     description       |-> [EmptyLocaleMap(<<>>) EXCEPT ![site_type] = data.description],
     material          |-> [EmptyLocaleMap("") EXCEPT ![site_type] = data.material],
     size              |-> [EmptyLocaleMap(<<>>) EXCEPT ![site_type] = FormatSizeData(data.size)],
     issoldout         |-> data.isSoldout,
     indexed           |-> FALSE,
     indexed_at        |-> 0,
     scraped_at        |-> [site_type |-> site_type, url |-> product_url]]

\* Variant: the maps and URL fields are rebuilt as on the create path.
UpdateExistingProductReplacing(product, product_url, data, site_type) ==
    [CreateNewProduct(product_url, data, site_type) EXCEPT
        !.product_name = product.product_name, !.color = product.color]

\* Variant: a merge marks the row as not indexed.
UpdateExistingProductReindex(product, product_url, data, site_type) ==
    [product EXCEPT
        !.source_global_url = IF site_type = "global" THEN product_url ELSE @,
        !.source_kr_url     = IF site_type = "global" THEN @ ELSE product_url,
        !.price[site_type]         = data.price,
        !.reward_points[site_type] = data.reward_points,
        !.description[site_type]   = data.description,
        !.material[site_type]      = data.material,
        !.size[site_type]          = FormatSizeData(data.size),
        !.issoldout                = data.isSoldout,
        !.indexed                  = FALSE,
        !.indexed_at               = 0]

\* _update_existing_product: the row after merging data of locale site_type.
UpdateExistingProduct(product, product_url, data, site_type) ==
    [product EXCEPT
        !.source_global_url = IF site_type = "global" THEN product_url ELSE @,
        !.source_kr_url     = IF site_type = "global" THEN @ ELSE product_url,
        !.price[site_type]         = data.price,
        !.reward_points[site_type] = data.reward_points,
        !.description[site_type]   = data.description,
        !.material[site_type]      = data.material,
        !.size[site_type]          = FormatSizeData(data.size),
        !.issoldout                = data.isSoldout]

\* ---------------------------------------------------------- image pipeline

\* Variant: the order index counts the images saved so far.
DownloadAndSaveImagesContiguous(product_id, image_urls) ==
    LET F[i \in 0..Len(image_urls)] ==
            IF i = 0 THEN <<>>
            ELSE IF image_urls[i].fetch = "ok"
                 THEN Append(F[i - 1], [product_id |-> product_id,
                                        image_data |-> image_urls[i].ref,
                                        image_order |-> Len(F[i - 1])])
                 ELSE F[i - 1]
    IN F[Len(image_urls)]

\* _download_and_save_images, lines 426-454: the rows added to the session for
\* product_id; an image whose fetch raises or whose bytes fail Image.verify is
\* skipped, its order index is not reused.
DownloadAndSaveImages(product_id, image_urls) ==
    LET F[i \in 0..Len(image_urls)] ==
            IF i = 0 THEN <<>>
            ELSE IF image_urls[i].fetch = "ok"
                 THEN Append(F[i - 1], [product_id |-> product_id,
                                        image_data |-> image_urls[i].ref,
                                        image_order |-> i - 1])
                 ELSE F[i - 1]
    IN F[Len(image_urls)]

\* Variant: the first image is committed on its own.
CommitImagesPartial(imgs, added, commit_ok) ==
    IF commit_ok THEN imgs \o added ELSE imgs \o SubSeq(added, 1, IF added = <<>> THEN 0 ELSE 1)

\* Variant: a failed commit is not rolled back.
CommitImagesIgnoresFailure(imgs, added, commit_ok) == imgs \o added

\* _download_and_save_images, lines 456-461: the table after the one commit
\* that follows the loop; a failed commit is rolled back.
CommitImages(imgs, added, commit_ok) == IF commit_ok THEN imgs \o added ELSE imgs

\* Variant: images are downloaded on every merge.
ImagesOnUpdateToo(created) == TRUE

\* Lines 237-241: images are downloaded for a newly created product only.
ImagesWanted(created) == created

\* _scrape_single_product on the tables rows / imgs: the tables after it, its
\* return value, and the session.get calls it made (item page, then images).
\* (The page and the extracted data are bound as values, so that each is
\* computed once.)
ScrapeSingleProduct(rows, imgs, product_url, site_type) ==
    CHOOSE result \in
      {LET hit  == ExistingProduct(rows, data, product_url, site_type)
           existing == CHOOSE i \in hit : \A k \in hit : i <= k
           created == hit = {}
           image_urls == IF ImagesWanted(created) THEN ExtractImageUrls(page) ELSE <<>>
           product_id == IF created THEN Len(rows) + 1 ELSE existing
       IN IF page.status = "error"
          THEN [ok |-> FALSE, path |-> "fetch_error", product_id |-> 0, products |-> rows,
                images |-> imgs, image_fetches |-> <<>>]
          ELSE IF ~data.found
          THEN [ok |-> FALSE, path |-> "no_data", product_id |-> 0, products |-> rows,
                images |-> imgs, image_fetches |-> <<>>]
          ELSE [ok |-> TRUE,
                path |-> IF created THEN "created" ELSE "updated",
                product_id |-> product_id,
                products |-> IF created
                             THEN Append(rows, CreateNewProduct(product_url, data, site_type))
                             ELSE [rows EXCEPT ![existing] =
                                      UpdateExistingProduct(@, product_url, data, site_type)],
                images |-> CommitImages(imgs, DownloadAndSaveImages(product_id, image_urls),
                                        env.image_commit_ok),
                image_fetches |-> image_urls] :
         <<page, data>> \in {<<ItemPage(product_url),
                               ExtractProductInfo(ItemPage(product_url), site_type)>>}} : TRUE

\* ------------------------------------------------------------- storefronts

U(host, path) == [host |-> host, path |-> path]

Mk(kind, path) == [kind |-> kind, host |-> "", path |-> path]

MkHttp(host, path) == [kind |-> "http", host |-> host, path |-> path]

Ok(markers) == [status |-> "ok", markers |-> markers]

Err == [status |-> "error", markers |-> <<>>]

Img(form, ref, fetch) == [form |-> form, ref |-> ref, fetch |-> fetch]

Item(keywords, price, marker, imgs) ==
    [status |-> "ok", keywords |-> keywords, price |-> price, reward |-> "1%",
     desc |-> "frame", notice |-> "notice", material |-> "acetate",
     dims |-> <<"52", "", "18", "", "140">>, marker |-> marker, imgs |-> imgs]

Bad == [ErrorItemPage EXCEPT !.status = "bad"]

KwAB == <<"A", " ", "-", " ", "B">>

KwC == <<"C", ",", "x">>

KwDE == <<" ", "D", " ", "-", " ", "E", " ">>

G == "ucmeyewear.earth"

K == "ucmeyewear.com"

\* Both locales list the identity A/B; the global site also lists C, the kr site D/E.
SiteTwoLocales ==
    [listing |-> [global |-> <<Ok(<<Mk("slash", "p1"), Mk("slash", "p2")>>)>>,
                  kr     |-> <<Ok(<<Mk("slash", "p1"), Mk("bare", "p3")>>)>>],
     item |-> (U(G, "p1") :> Item(KwAB, "$10", TRUE,
                    <<Img("protocol_relative", "g1", "ok"),
                      Img("protocol_relative", "g2", "corrupt"),
                      Img("protocol_relative", "g3", "ok")>>))
           @@ (U(G, "p2") :> Item(KwC, "$20", FALSE, <<Img("relative", "g4", "ok")>>))
           @@ (U(K, "p1") :> Item(KwAB, "10000", FALSE,
                    <<Img("protocol_relative", "k1", "ok")>>))
           @@ (U(K, "p3") :> Item(KwDE, "30000", TRUE,
                    <<Img("absolute", "k2", "ok"), Img("protocol_relative", "k3", "fail")>>))]

\* Global listing pages with 5, 3 and 0 markers and pairwise distinct links; item
\* pages that fail, that hold no name, and two pages of one identity. The kr
\* listing has a page repeating one link in three href forms, a page of already
\* seen links, a page whose marker has no link, then a page with a new link.
SitePages530 ==
    [listing |-> [global |-> <<Ok(<<Mk("slash", "p1"), Mk("slash", "p2"), Mk("slash", "p3"),
                                    Mk("slash", "p4"), Mk("slash", "p5")>>),
                               Ok(<<Mk("slash", "p6"), Mk("slash", "p7"), Mk("slash", "p8")>>),
                               Ok(<<>>),
                               Ok(<<Mk("slash", "p9")>>)>>,
                  kr     |-> <<Ok(<<Mk("slash", "p1"), Mk("bare", "p1"), Mk("nolink", "")>>),
                               Ok(<<MkHttp(K, "p1")>>),
                               Ok(<<Mk("nolink", "")>>),
                               Ok(<<Mk("slash", "p2")>>)>>],
     item |-> (U(G, "p1") :> Item(KwAB, "$10", TRUE, <<Img("protocol_relative", "g1", "ok")>>))
           @@ (U(K, "p1") :> Item(KwAB, "10000", TRUE, <<Img("protocol_relative", "k1", "ok")>>))
           @@ (U(G, "p3") :> Bad)
           @@ (U(G, "p4") :> Item(<<>>, "$40", TRUE, <<Img("protocol_relative", "g4", "ok")>>))
           @@ (U(G, "p5") :> Item(KwAB, "$50", FALSE, <<Img("protocol_relative", "g5", "ok")>>))
           @@ (U(G, "p6") :> Item(KwC, "$60", TRUE, <<>>))
           @@ (U(G, "p7") :> Item(<<" ", ",", "A">>, "$70", TRUE, <<>>))
           @@ (U(G, "p8") :> Item(<<"A">>, "$80", TRUE,
                    <<Img("protocol_relative", "g8", "fail")>>))
           @@ (U(G, "p9") :> Item(<<"Z">>, "$90", TRUE, <<>>))]

\* Global listing: links repeated within and across pages. The kr listing fails
\* on its second page.
SiteDuplicates ==
    [listing |-> [global |-> <<Ok(<<Mk("slash", "p1"), Mk("bare", "p1")>>),
                               Ok(<<MkHttp(G, "p1"), Mk("slash", "p2")>>)>>,
                  kr     |-> <<Ok(<<Mk("slash", "p1")>>), Err>>],
     item |-> (U(G, "p1") :> Item(KwAB, "$10", TRUE, <<Img("protocol_relative", "g1", "ok")>>))
           @@ (U(G, "p2") :> Item(KwAB, "$11", TRUE, <<Img("protocol_relative", "g2", "ok")>>))
           @@ (U(K, "p1") :> Item(KwAB, "10000", TRUE, <<>>))]

\* The global listing cannot be fetched; the kr site lists one item.
SiteGlobalDown ==
    [listing |-> [global |-> <<Err>>,
                  kr     |-> <<Ok(<<Mk("slash", "p1")>>)>>],
     item |-> (U(K, "p1") :> Item(KwAB, "10000", TRUE, <<Img("protocol_relative", "k1", "ok")>>))]

\* The global listing is empty; the kr site lists one item, so the kr pass creates.
SiteKrOnly ==
    [listing |-> [global |-> <<>>,
                  kr     |-> <<Ok(<<Mk("slash", "p1"), MkHttp(G, "p1")>>)>>],
     item |-> (U(K, "p1") :> Item(KwC, "20000", FALSE,
                    <<Img("protocol_relative", "k1", "ok"), Img("missing", "", "ok")>>))
           @@ (U(G, "p1") :> Item(KwC, "$20", TRUE, <<Img("protocol_relative", "g1", "ok")>>))]

\* The global listing is empty; the only item the kr site lists cannot be parsed.
SiteNothing ==
    [listing |-> [global |-> <<>>,
                  kr     |-> <<Ok(<<Mk("slash", "p1")>>)>>],
     item |-> (U(K, "p1") :> Bad)]

\* The global listing serves, after its first page, the items of that page on
\* every further page.
SiteEndlessGlobal ==
    [listing |-> [global |-> <<Ok(<<Mk("slash", "p1"), Mk("slash", "p2")>>)>>,
                  kr     |-> <<Ok(<<Mk("slash", "p1")>>)>>],
     tail |-> [global |-> Ok(<<Mk("slash", "p2"), Mk("slash", "p1")>>),
               kr     |-> EmptyListingPage],
     item |-> (U(G, "p1") :> Item(KwAB, "$10", TRUE, <<>>))
           @@ (U(G, "p2") :> Item(KwC, "$20", TRUE, <<>>))
           @@ (U(K, "p1") :> Item(KwAB, "10000", TRUE, <<>>))]

\* The global listing ends; every page of the kr listing has a marker.
SiteEndlessKr ==
    [listing |-> [global |-> <<Ok(<<Mk("slash", "p1")>>)>>,
                  kr     |-> <<Ok(<<Mk("slash", "p1")>>)>>],
     tail |-> [global |-> EmptyListingPage,
               kr     |-> Ok(<<Mk("nolink", "")>>)],
     item |-> (U(G, "p1") :> Item(KwAB, "$10", TRUE, <<Img("protocol_relative", "g1", "ok")>>))
           @@ (U(K, "p1") :> Item(KwAB, "10000", TRUE, <<>>))]

Sites == {SiteTwoLocales, SitePages530, SiteDuplicates, SiteGlobalDown, SiteKrOnly, SiteNothing}

\* Storefronts whose listings end and storefronts where one listing has no
\* last page.
LiveSites == {SiteDuplicates, SiteNothing, SiteEndlessGlobal, SiteEndlessKr}

\* The pieces of a generated keywords field.
NameTokens == {<<"A">>, <<"B">>, <<"-">>, <<" ">>, <<",">>, SEP}

RECURSIVE Flatten(_)
Flatten(pieces) == IF pieces = <<>> THEN <<>> ELSE Head(pieces) \o Flatten(Tail(pieces))

\* The contents of meta[name=keywords] tried: every text of at most MaxTokens pieces.
NameFields == {Flatten(pieces) : pieces \in UNION {[1..n -> NameTokens] : n \in 0..MaxTokens}}

\* A storefront whose one item page carries the keywords content.
NameSite(content) ==
    [listing |-> [global |-> <<Ok(<<Mk("slash", "p1")>>)>>, kr |-> <<>>],
     item |-> (U(G, "p1") :> Item(content, "$10", TRUE, <<>>))]

\* The img elements tried: the form of the source, and for a kept source the
\* result of its download (ok, fail: the fetch raises, corrupt: verify raises).
ImageKinds ==
    {[form |-> "protocol_relative", fetch |-> "ok"],
     [form |-> "protocol_relative", fetch |-> "fail"],
     [form |-> "protocol_relative", fetch |-> "corrupt"],
     [form |-> "absolute", fetch |-> "ok"],
     [form |-> "relative", fetch |-> "ok"],
     [form |-> "missing", fetch |-> "ok"]}

RefNames == <<"i1", "i2", "i3", "i4", "i5", "i6">>

\* Every list of at most MaxImages img elements, each with a name of its own.
ImageLists ==
    {[k \in 1..Len(kinds) |-> Img(kinds[k].form, RefNames[k], kinds[k].fetch)] :
        kinds \in UNION {[1..n -> ImageKinds] : n \in 0..MaxImages}}

\* A storefront with one identity: its global item page shows imgs, its kr
\* item page one image that downloads.
MergeSite(imgs) ==
    [listing |-> [global |-> <<Ok(<<Mk("slash", "p1")>>)>>,
                  kr     |-> <<Ok(<<Mk("slash", "p1")>>)>>],
     item |-> (U(G, "p1") :> Item(KwAB, "$10", TRUE, imgs))
           @@ (U(K, "p1") :> Item(KwAB, "10000", FALSE,
                    <<Img("protocol_relative", "k1", "ok")>>))]

\* The item pages of MergeSite, each with the locale whose pass lists it.
MergeCalls == {[url |-> U(G, "p1"), site_type |-> "global"],
               [url |-> U(K, "p1"), site_type |-> "kr"]}

\* The trigger requests tried: ScrapeRequest(url, max_products).
Requests ==
    {[url |-> NoUrl, max_products |-> NoCap],
     [url |-> NoUrl, max_products |-> 0],
     [url |-> U("example.org", "list"), max_products |-> 2]}

\* -------------------------------------------------------------------- jobs

\* A row left in status running by a service process that was killed during a
\* crawl: the table outlives the process, the crawl task does not.
StaleRunningJob ==
    [target_url |-> TARGET_URL, status |-> "running", products_count |-> 0,
     completed_at |-> FALSE]

\* The task slot of a job whose task no longer exists.
LostTask ==
    [pc |-> "lost", max_products |-> NoCap, site_type |-> "global", page_num |-> 1,
     all_product_links |-> <<>>, products_to_scrape |-> <<>>, i |-> 0,
     scraped_count |-> 0, total_scraped |-> 0]

\* Variant: the trigger creates the job row and no task.
NewTaskNotStarted(max_products) == LostTask

\* asyncio.create_task(run_scraping(job.id, target_url, request.max_products))
NewTask(max_products) == [LostTask EXCEPT !.pc = "scheduled", !.max_products = max_products]

JobIds == 1..Len(jobs)

\* Variant: a pending job counts as running.
RunningJobsOrPending(rows) == {j \in 1..Len(rows) : rows[j].status \in {"running", "pending"}}

\* Variant: the trigger does not look for a running job.
RunningJobsUnchecked(rows) == {}

\* Lines 95-97: the jobs the exclusivity query of the trigger matches.
RunningJobs(rows) == {j \in 1..Len(rows) : rows[j].status = "running"}

Fetch(j, kind, site_type, url, page_num) ==
    [job |-> j, kind |-> kind, site_type |-> site_type, url |-> url, page_num |-> page_num]

ImageFetches(j, site_type, image_urls) ==
    [k \in 1..Len(image_urls) |-> Fetch(j, "image", site_type, U("img", image_urls[k].ref), 0)]

\* Whether task j may take its next step: it holds the event loop, or the loop
\* is idle and j is waiting at a suspension point.
MayStep(j) == loop = j \/ (loop = 0 /\ ~BlockingIO /\ task[j].pc \in {"listing", "items"})

\* The event loop after a fetch or delay of task j.
AfterIO(j) == IF BlockingIO THEN j ELSE 0

Init ==
    /\ site \in Sites
    /\ env \in [request_timeout_ok : BOOLEAN, image_commit_ok : {TRUE}]
    /\ products = <<>>
    /\ images = <<>>
    /\ jobs \in {<<>>, <<StaleRunningJob>>}
    /\ task = [j \in 1..Len(jobs) |-> LostTask]
    /\ loop = 0
    /\ response = [status_code |-> 0, job_id |-> 0]
    /\ fetches = <<>>
    /\ outcomes = <<>>
    /\ passes = <<>>

\* POST /admin/scrape: start_scraping.
StartScraping(url, max_products) ==
    /\ loop = 0
    /\ Len(jobs) < MaxJobs
    /\ LET running == RunningJobs(jobs)
       IN IF running # {}
          THEN /\ response' = [status_code |-> 400,
                               job_id |-> CHOOSE j \in running : \A k \in running : j <= k]
               /\ UNCHANGED <<jobs, task>>
          ELSE /\ jobs' = Append(jobs, [target_url |-> IF url = NoUrl THEN TARGET_URL ELSE url,
                                        status |-> "pending", products_count |-> 0,
                                        completed_at |-> FALSE])
               /\ task' = Append(task, NewTask(max_products))
               /\ response' = [status_code |-> 200, job_id |-> Len(jobs) + 1]
    /\ UNCHANGED <<site, env, products, images, loop, fetches, outcomes, passes>>

\* Variant: the task does not record that it started.
MarkRunningSkipped(job) == job

\* Lines 254-255: job.status = "running"; db.commit()
MarkRunning(job) == [job EXCEPT !.status = "running"]

\* run_scraping, lines 246-255: the task starts and marks its job running.
RunBegin(j) ==
    /\ loop = 0
    /\ task[j].pc = "scheduled"
    /\ jobs' = [jobs EXCEPT ![j] = MarkRunning(@)]
    /\ task' = [task EXCEPT ![j].pc = "construct"]
    /\ loop' = j
    /\ UNCHANGED <<site, env, products, images, response, fetches, outcomes, passes>>

\* Variant: the kr pass is made first.
PassOrderKrFirst == <<"kr", "global">>

\* scrape_products_both_sites, lines 80 and 86: the passes of a run, in order.
PassOrder == <<"global", "kr">>

\* The locals of scrape_products at the start of a pass, lines 98-99.
StartPass(t, site_type) ==
    [t EXCEPT !.pc = "listing", !.site_type = site_type, !.page_num = 1,
              !.all_product_links = <<>>, !.products_to_scrape = <<>>, !.i = 0,
              !.scraped_count = 0]

\* run_scraping, line 260: ProductScraper(db); int(os.getenv('REQUEST_TIMEOUT'))
\* raises on a malformed setting, and the exception escapes the crawl task.
RunConstruct(j) ==
    /\ loop = j
    /\ task[j].pc = "construct"
    /\ task' = [task EXCEPT ![j] = IF ~env.request_timeout_ok THEN [@ EXCEPT !.pc = "except"]
                                   ELSE StartPass(@, PassOrder[1])]
    /\ UNCHANGED <<site, env, products, images, jobs, loop, response, fetches, outcomes, passes>>

\* Variant: the run ends after a first pass that returned 0.
PassReturnStopsAtZero(t, count) ==
    IF t.site_type = PassOrder[1] /\ count > 0
    THEN [StartPass(t, PassOrder[2]) EXCEPT !.total_scraped = t.total_scraped + count]
    ELSE [t EXCEPT !.pc = "finalize", !.total_scraped = t.total_scraped + count]

\* scrape_products_both_sites, lines 80-91: a pass returned count.
PassReturn(t, count) ==
    IF t.site_type = PassOrder[1]
    THEN [StartPass(t, PassOrder[2]) EXCEPT !.total_scraped = t.total_scraped + count]
    ELSE [t EXCEPT !.pc = "finalize", !.total_scraped = t.total_scraped + count]

\* Variant: the links harvested before the error are processed.
OnListingErrorKeepsLinks(t) ==
    IF t.all_product_links = <<>> THEN PassReturn(t, 0)
    ELSE [t EXCEPT !.pc = "items", !.i = 1, !.scraped_count = 0,
                   !.products_to_scrape = ProductsToScrape(t.all_product_links, t.max_products)]

\* Variant: the exception leaves scrape_products and the crawl task.
OnListingErrorRaise(t) == [t EXCEPT !.pc = "except"]

\* Lines 201-203: an exception in scrape_products is printed and the pass returns 0.
OnListingError(t) == PassReturn(t, 0)

\* Variant: cap 0 is not told apart.
IsDryRunNever(max_products) == FALSE

\* Line 162: max_products is not None and max_products == 0
IsDryRun(max_products) == max_products # NoCap /\ max_products = 0

PassSummary(j, t, links, ended, count) ==
    [job |-> j, site_type |-> t.site_type, max_products |-> t.max_products,
     pages |-> t.page_num, links |-> links, ended |-> ended, returned |-> count]

\* scrape_products, lines 102-173: one iteration of the pagination loop and,
\* when the loop ends, the steps up to the first item.
FetchListing(j) ==
    LET t == task[j]
        page == ListingPage(t.site_type, t.page_num)
        links == AddPageLinks(t.all_product_links, page.markers, t.site_type)
    IN /\ MayStep(j)
       /\ t.pc = "listing"
       /\ t.page_num <= MaxPages
       /\ fetches' = Append(fetches, Fetch(j, "listing", t.site_type, BaseUrl(t.site_type),
                                            t.page_num))
       /\ IF page.status = "error"
          THEN \* lines 201-203
               /\ task' = [task EXCEPT ![j] = OnListingError(t)]
               /\ passes' = Append(passes, PassSummary(j, t, t.all_product_links, "error", 0))
               /\ loop' = j
          ELSE IF FrontierStops(page)
          THEN IF t.all_product_links = <<>> \/ IsDryRun(t.max_products)
               THEN \* lines 157-167
                    /\ task' = [task EXCEPT ![j] = PassReturn(t, Len(t.all_product_links))]
                    /\ passes' = Append(passes, PassSummary(j, t, t.all_product_links,
                                            "harvest", Len(t.all_product_links)))
                    /\ loop' = j
               ELSE \* lines 169-176
                    /\ task' = [task EXCEPT ![j] =
                           [t EXCEPT !.pc = "items", !.i = 1, !.scraped_count = 0,
                                     !.products_to_scrape =
                                        ProductsToScrape(t.all_product_links, t.max_products)]]
                    /\ passes' = passes
                    /\ loop' = j
          ELSE \* lines 123-153
               /\ task' = [task EXCEPT ![j] =
                      [t EXCEPT !.all_product_links = links, !.page_num = t.page_num + 1]]
               /\ passes' = passes
               /\ loop' = AfterIO(j)
       /\ UNCHANGED <<site, env, products, images, jobs, response, outcomes>>

\* scrape_products, lines 176-199: one iteration of the item loop, with
\* _scrape_single_product and, on the create path, the image pipeline.
ScrapeItem(j) ==
    LET t == task[j]
        link == t.products_to_scrape[t.i]
        last == t.i = Len(t.products_to_scrape)
    IN /\ MayStep(j)
       /\ t.pc = "items"
       /\ \E r \in {ScrapeSingleProduct(products, images, link, t.site_type)} :
            \E count \in {IF r.ok THEN t.scraped_count + 1 ELSE t.scraped_count} :
               /\ products' = r.products
               /\ images' = r.images
               /\ fetches' = Append(fetches, Fetch(j, "item", t.site_type, link, 0))
                                \o ImageFetches(j, t.site_type, r.image_fetches)
               /\ outcomes' = Append(outcomes, [job |-> j, site_type |-> t.site_type,
                                                url |-> link, path |-> r.path,
                                                product_id |-> r.product_id])
               /\ IF last
                  THEN /\ task' = [task EXCEPT ![j] = PassReturn(t, count)]
                       /\ passes' = Append(passes, PassSummary(j, t, t.all_product_links,
                                                               "items", count))
                       /\ loop' = j
                  ELSE /\ task' = [task EXCEPT ![j] =
                                      [t EXCEPT !.i = t.i + 1, !.scraped_count = count]]
                       /\ passes' = passes
                       /\ loop' = AfterIO(j)
       /\ UNCHANGED <<site, env, jobs, response>>

\* Variant: the indexing service is notified of every completed run.
ShouldNotifyAlways(products_count) == TRUE

\* Line 272: if products_count > 0
ShouldNotify(products_count) == products_count > 0

\* run_scraping, lines 263-273: both passes returned; the task then waits for
\* the indexing service (the first await that suspends) or ends.
RunFinalize(j) ==
    /\ loop = j
    /\ task[j].pc = "finalize"
    /\ jobs' = [jobs EXCEPT ![j].status = "completed",
                            ![j].products_count = task[j].total_scraped,
                            ![j].completed_at = TRUE]
    /\ task' = [task EXCEPT ![j].pc = IF ShouldNotify(task[j].total_scraped) THEN "notify" ELSE "done"]
    /\ loop' = 0
    /\ UNCHANGED <<site, env, products, images, response, fetches, outcomes, passes>>

\* notify_indexing_service: one POST; whether it is delivered (status 200) or
\* not (another status, a transport error) is printed and changes nothing.
NotifyIndexingService(j, delivered) ==
    /\ loop = 0
    /\ task[j].pc = "notify"
    /\ fetches' = Append(fetches, Fetch(j, "post", "global", U("rag-indexing:8000", "process/new-products"),
                                        jobs[j].products_count))
    /\ task' = [task EXCEPT ![j].pc = "done"]
    /\ UNCHANGED <<site, env, products, images, jobs, loop, response, outcomes, passes>>

\* Variant: the failure is recorded without a completion time.
MarkFailedNoTimestamp(job) == [job EXCEPT !.status = "failed"]

\* Lines 279-282: job.status = "failed"; job.completed_at = now; db.commit()
MarkFailed(job) == [job EXCEPT !.status = "failed", !.completed_at = TRUE]

\* run_scraping, lines 275-284: an exception escaped the crawl.
RunExcept(j) ==
    /\ loop = j
    /\ task[j].pc = "except"
    /\ jobs' = [jobs EXCEPT ![j] = MarkFailed(@)]
    /\ task' = [task EXCEPT ![j].pc = "done"]
    /\ loop' = 0
    /\ UNCHANGED <<site, env, products, images, response, fetches, outcomes, passes>>

\* The extractor and the merge on one item page, for every keywords content:
\* _scrape_single_product(url, "global") called once on empty tables.
InitName ==
    /\ site \in {NameSite(content) : content \in NameFields}
    /\ env = [request_timeout_ok |-> TRUE, image_commit_ok |-> TRUE]
    /\ products = <<>>
    /\ images = <<>>
    /\ jobs = <<>>
    /\ task = <<>>
    /\ loop = 0
    /\ response = [status_code |-> 0, job_id |-> 0]
    /\ fetches = <<>>
    /\ outcomes = <<>>
    /\ passes = <<>>

ScrapeOne ==
    LET link == U(G, "p1")
        r == ScrapeSingleProduct(products, images, link, "global")
    IN /\ outcomes = <<>>
       /\ products' = r.products
       /\ images' = r.images
       /\ outcomes' = <<[job |-> 0, site_type |-> "global", url |-> link,
                         path |-> r.path, product_id |-> r.product_id]>>
       /\ UNCHANGED <<site, env, jobs, task, loop, response, fetches, passes>>

NextName == ScrapeOne

SpecName == InitName /\ [][NextName]_vars

\* The merge and the image pipeline on one identity, for every list of img
\* elements: calls of _scrape_single_product, commits of image rows that the
\* database may refuse, and the indexing service marking rows as indexed.
InitMerge ==
    /\ site \in {MergeSite(imgs) : imgs \in ImageLists}
    /\ env \in [request_timeout_ok : {TRUE}, image_commit_ok : BOOLEAN]
    /\ products = <<>>
    /\ images = <<>>
    /\ jobs = <<>>
    /\ task = <<>>
    /\ loop = 0
    /\ response = [status_code |-> 0, job_id |-> 0]
    /\ fetches = <<>>
    /\ outcomes = <<>>
    /\ passes = <<>>

\* _scrape_single_product(product_url, site_type), as the item loop calls it.
ScrapeCall(product_url, site_type) ==
    LET r == ScrapeSingleProduct(products, images, product_url, site_type)
    IN /\ Len(outcomes) < MaxCalls
       /\ products' = r.products
       /\ images' = r.images
       /\ fetches' = Append(fetches, Fetch(0, "item", site_type, product_url, 0))
                        \o ImageFetches(0, site_type, r.image_fetches)
       /\ outcomes' = Append(outcomes, [job |-> 0, site_type |-> site_type, url |-> product_url,
                                        path |-> r.path, product_id |-> r.product_id,
                                        commit_ok |-> env.image_commit_ok])
       /\ UNCHANGED <<site, env, jobs, task, loop, response, passes>>

\* The database starts or stops accepting the commit of image rows.
CommitFaultChanges ==
    /\ env' = [env EXCEPT !.image_commit_ok = ~@]
    /\ UNCHANGED <<site, products, images, jobs, task, loop, response, fetches, outcomes, passes>>

\* indexing/main.py, process_products_indexing: the indexing service marks a
\* row as indexed; the time is the number of merges made so far.
ProcessProductsIndexing(p) ==
    /\ ~products[p].indexed
    /\ products' = [products EXCEPT ![p].indexed = TRUE, ![p].indexed_at = Len(outcomes)]
    /\ UNCHANGED <<site, env, images, jobs, task, loop, response, fetches, outcomes, passes>>

NextMerge ==
    \/ \E c \in MergeCalls : ScrapeCall(c.url, c.site_type)
    \/ CommitFaultChanges
    \/ \E p \in 1..Len(products) : ProcessProductsIndexing(p)

SpecMerge == InitMerge /\ [][NextMerge]_vars

Next ==
    \/ \E r \in Requests : StartScraping(r.url, r.max_products)
    \/ \E j \in JobIds : RunBegin(j)
    \/ \E j \in JobIds : RunConstruct(j)
    \/ \E j \in JobIds : FetchListing(j)
    \/ \E j \in JobIds : ScrapeItem(j)
    \/ \E j \in JobIds : RunFinalize(j)
    \/ \E j \in JobIds, delivered \in BOOLEAN : NotifyIndexingService(j, delivered)
    \/ \E j \in JobIds : RunExcept(j)

Spec == Init /\ [][Next]_vars

\* The service on a storefront whose listing may have no last page.
InitLive ==
    /\ site \in LiveSites
    /\ env \in [request_timeout_ok : BOOLEAN, image_commit_ok : {TRUE}]
    /\ products = <<>>
    /\ images = <<>>
    /\ jobs \in {<<>>, <<StaleRunningJob>>}
    /\ task = [j \in 1..Len(jobs) |-> LostTask]
    /\ loop = 0
    /\ response = [status_code |-> 0, job_id |-> 0]
    /\ fetches = <<>>
    /\ outcomes = <<>>
    /\ passes = <<>>

\* The steps of the task asyncio.create_task made for job j, up to the end
\* of run_scraping's try/except.
Crawl(j) ==
    /\ j \in JobIds
    /\ \/ RunBegin(j)
       \/ RunConstruct(j)
       \/ FetchListing(j)
       \/ ScrapeItem(j)
       \/ RunFinalize(j)
       \/ RunExcept(j)

\* The event loop runs every task it holds whenever the task can run; nothing
\* cancels a task, and every fetch returns or raises within request_timeout.
Fairness == \A j \in 1..MaxJobs : WF_vars(Crawl(j))

SpecLive == InitLive /\ [][Next]_vars /\ Fairness

\* ------------------------------------------------------------------ claims

Last(s) == s[Len(s)]

\* C1: every status change of a ScrapingJob is pending -> running,
\* running -> completed or running -> failed, a new job row is created pending
\* and no row disappears; so a job's status sequence is a prefix of pending,
\* running, completed or of pending, running, failed, and a completed or failed
\* job never changes status again.
C1_JobLifecycle ==
    [][/\ Len(jobs') >= Len(jobs)
       /\ \A j \in 1..Len(jobs) :
            jobs'[j].status # jobs[j].status =>
                <<jobs[j].status, jobs'[j].status>> \in
                    {<<"pending", "running">>, <<"running", "completed">>,
                     <<"running", "failed">>}
       /\ \A j \in (Len(jobs) + 1)..Len(jobs') : jobs'[j].status = "pending"]_vars

\* A job has completed and its task has ended while a later job is still pending.
C1_Witness ==
    \E j, k \in JobIds :
        /\ jobs[j].status = "completed" /\ task[j].pc = "done"
        /\ jobs[k].status = "pending" /\ task[k].pc = "scheduled"

\* C2: in every reachable state at most one ScrapingJob has status running.
C2_AtMostOneRunning ==
    Cardinality({j \in JobIds : jobs[j].status = "running"}) <= 1

\* Two triggers were accepted before either task started; the first task is
\* now crawling (its job is running) while the second job is still pending.
C2_Witness ==
    \E j, k \in JobIds :
        /\ jobs[j].status = "running" /\ task[j].pc = "items"
        /\ jobs[k].status = "pending" /\ task[k].pc = "scheduled"

\* The five locale-keyed attributes of a Product.
LocaleValues(product, l) ==
    <<product.price[l], product.reward_points[l], product.description[l],
      product.material[l], product.size[l]>>

SourceUrl(product, l) == IF l = "global" THEN product.source_global_url ELSE product.source_kr_url

\* C3: a merge of locale L into an existing Product leaves, in each of the five
\* locale maps, the value under the other locale's key as it was, keeps both
\* keys, and leaves the other locale's source URL field as it was.
C3_LocaleIsolation ==
    [][\A p \in 1..Len(products) : \A l \in Locales :
          (loop # 0 /\ products'[p] # products[p] /\ l # task[loop].site_type) =>
              /\ LocaleValues(products'[p], l) = LocaleValues(products[p], l)
              /\ SourceUrl(products'[p], l) = SourceUrl(products[p], l)
              /\ DOMAIN products'[p].price = Locales]_vars

\* A kr extraction was merged into a Product whose global values were
\* populated: both locales now hold their own price and their own URL.
C3_Witness ==
    \E p \in 1..Len(products) :
        /\ outcomes # <<>>
        /\ Last(outcomes).path = "updated" /\ Last(outcomes).site_type = "kr"
        /\ Last(outcomes).product_id = p
        /\ products[p].price["global"] = "$10" /\ products[p].price["kr"] = "10000"
        /\ products[p].source_global_url = U(G, "p1") /\ products[p].source_kr_url = U(K, "p1")

\* C4: no two Product rows have the same (product_name, color) pair.
C4_UniqueIdentity ==
    \A p, q \in 1..Len(products) :
        (products[p].product_name = products[q].product_name
            /\ products[p].color = products[q].color) => p = q

\* An item whose pair already existed took the update path, next to a second row.
C4_Witness ==
    /\ Len(products) = 2
    /\ \E a, b \in 1..Len(outcomes) :
          /\ a < b
          /\ outcomes[a].path = "created" /\ outcomes[b].path = "updated"
          /\ outcomes[a].product_id = outcomes[b].product_id
          /\ outcomes[a].site_type # outcomes[b].site_type

ImageFetchCount == Cardinality({k \in 1..Len(fetches) : fetches[k].kind = "image"})

\* C5: a step adds ProductImage rows only for the Product row it creates; every
\* other step, the update path included, fetches no image and leaves the rows
\* of product_images and their order indices as they were.
C5_ImagesWrittenOnce ==
    [][/\ Len(images') >= Len(images)
       /\ SubSeq(images', 1, Len(images)) = images
       /\ \A k \in (Len(images) + 1)..Len(images') :
             /\ Len(products') = Len(products) + 1
             /\ images'[k].product_id = Len(products')
       /\ Len(products') = Len(products) => ImageFetchCount' = ImageFetchCount]_vars

\* A Product that has images was merged again on the update path.
C5_Witness ==
    /\ outcomes # <<>>
    /\ Last(outcomes).path = "updated"
    /\ \E k \in 1..Len(images) : images[k].product_id = Last(outcomes).product_id

\* The frontier of a pass: the links harvested from page n on, and whether a
\* listing fetch failed.
RECURSIVE Harvest(_, _, _)
Harvest(site_type, n, all_product_links) ==
    LET page == ListingPage(site_type, n)
    IN IF page.status = "error" THEN [ok |-> FALSE, links |-> all_product_links]
       ELSE IF FrontierStops(page) THEN [ok |-> TRUE, links |-> all_product_links]
       ELSE Harvest(site_type, n + 1, AddPageLinks(all_product_links, page.markers, site_type))

\* The tables after the items links[i..] were processed in order.
RECURSIVE ScrapeAll(_, _, _, _, _)
ScrapeAll(rows, imgs, links, i, site_type) ==
    IF i > Len(links) THEN [products |-> rows, images |-> imgs]
    ELSE LET r == ScrapeSingleProduct(rows, imgs, links[i], site_type)
         IN ScrapeAll(r.products, r.images, links, i + 1, site_type)

\* The tables after one more pass of site_type under cap max_products.
PassAgain(rows, imgs, site_type, max_products) ==
    LET h == Harvest(site_type, 1, <<>>)
    IN IF ~h.ok \/ h.links = <<>> \/ IsDryRun(max_products)
       THEN [products |-> rows, images |-> imgs]
       ELSE ScrapeAll(rows, imgs, ProductsToScrape(h.links, max_products), 1, site_type)

\* A pass has just returned: no later step has been taken.
PassJustReturned(j) ==
    /\ loop = j
    /\ passes # <<>> /\ Last(passes).job = j
    /\ \/ task[j].pc = "finalize" /\ Last(passes).site_type = "kr"
       \/ task[j].pc = "listing" /\ task[j].site_type = "kr" /\ task[j].page_num = 1
            /\ Last(passes).site_type = "global"

\* C6: when a locale pass has returned, running the same pass again over the
\* same site content leaves products and product_images exactly as they are.
C6_PassIdempotent ==
    \A j \in JobIds :
        PassJustReturned(j) =>
            PassAgain(products, images, Last(passes).site_type, Last(passes).max_products)
                = [products |-> products, images |-> images]

\* A pass that created a Product with images, and updated it from a second
\* page of the same identity, has just returned.
C6_Witness ==
    \E j \in JobIds :
        /\ PassJustReturned(j)
        /\ Last(passes).ended = "items"
        /\ \E a, b \in 1..Len(outcomes) :
              /\ a < b
              /\ outcomes[a].job = j /\ outcomes[b].job = j
              /\ outcomes[a].site_type = Last(passes).site_type
              /\ outcomes[b].site_type = Last(passes).site_type
              /\ outcomes[a].path = "created" /\ outcomes[b].path = "updated"
              /\ outcomes[a].product_id = outcomes[b].product_id
              /\ \E k \in 1..Len(images) : images[k].product_id = outcomes[a].product_id

\* The listing requests of pass (j, l) and the summaries of job j, each in order.
ListingFetchesOf(j, l) ==
    SelectSeq(fetches, LAMBDA f : f.job = j /\ f.site_type = l /\ f.kind = "listing")

PassesOf(j) == SelectSeq(passes, LAMBDA s : s.job = j)

\* The jobs whose trigger carried cap 0.
DryRunJobs == {j \in JobIds : task[j].pc # "lost" /\ task[j].max_products = 0}

\* A step of the crawl task of a dry-run job writes neither products nor
\* product_images nor the row of another job.
DryRunStepWritesNothing ==
    \A j \in DryRunJobs :
        task'[j] # task[j] =>
            /\ products' = products
            /\ images' = images
            /\ \A k \in JobIds \ {j} : jobs'[k] = jobs[k]

\* A dry-run job has requested listing pages (and the indexing POST) only and
\* has processed no item.
DryRunFetchesListingsOnly ==
    \A j \in DryRunJobs :
        /\ \A k \in 1..Len(fetches) :
              fetches[k].job = j => fetches[k].kind \in {"listing", "post"}
        /\ \A k \in 1..Len(outcomes) : outcomes[k].job # j

\* C7, as claimed: a crawl with cap 0 fetches listing pages only, writes no
\* Product and no ProductImage row and nothing but its own job's row, and each
\* of its locale passes returns the number of unique links its frontier found.
C7_DryRunAsClaimed ==
    [][/\ DryRunStepWritesNothing
       /\ DryRunFetchesListingsOnly'
       /\ \A k \in 1..Len(passes') :
             passes'[k].job \in DryRunJobs' => passes'[k].returned = Len(passes'[k].links)]_vars

\* C7, amended: as claimed, except that only a pass whose listing fetches all
\* succeeded returns the number of unique links found; a pass whose listing
\* fetch failed returns 0, whatever it had found.
C7_DryRun ==
    [][/\ DryRunStepWritesNothing
       /\ DryRunFetchesListingsOnly'
       /\ \A k \in 1..Len(passes') :
             passes'[k].job \in DryRunJobs' =>
                 \/ passes'[k].ended = "harvest"
                      /\ passes'[k].returned = Len(passes'[k].links)
                 \/ passes'[k].ended = "error" /\ passes'[k].returned = 0]_vars

\* A dry run over the 5 + 3 link listing has ended: both passes returned their
\* link counts, the job is completed with their sum, and both tables are empty.
C7_Witness ==
    \E j \in DryRunJobs :
        /\ task[j].pc = "done" /\ jobs[j].status = "completed"
        /\ Len(PassesOf(j)) = 2
        /\ PassesOf(j)[1].returned = 8 /\ PassesOf(j)[2].returned = 2
        /\ jobs[j].products_count = 10
        /\ products = <<>> /\ images = <<>>

\* C8: the listing pages of a pass are fetched in the order 1, 2, 3, ...; every
\* page before the last one fetched was served with at least one marker; a
\* pass whose frontier ended without error fetched, as its last page, the
\* first page without markers, and fetches no listing page afterwards. For the
\* listing with 5, 3 and 0 markers it fetches 3 pages and returns 8 distinct links.
C8_Pagination ==
    /\ \A j \in JobIds : \A l \in Locales :
          LET lf == ListingFetchesOf(j, l)
          IN /\ \A k \in 1..Len(lf) : lf[k].page_num = k
             /\ \A k \in 1..(Len(lf) - 1) :
                   ListingPage(l, k).status = "ok" /\ ListingPage(l, k).markers # <<>>
    /\ \A k \in 1..Len(passes) :
          LET s == passes[k]
          IN s.ended # "error" =>
                /\ Len(ListingFetchesOf(s.job, s.site_type)) = s.pages
                /\ ListingPage(s.site_type, s.pages).markers = <<>>
                /\ site = SitePages530 /\ s.site_type = "global" =>
                      /\ s.pages = 3
                      /\ Len(s.links) = 8
                      /\ Cardinality({s.links[n] : n \in 1..Len(s.links)}) = 8

\* One run fetched 3 pages and found 8 links on the 5, 3, 0 listing, and went
\* past a page of already seen links and a page of link-less markers on the
\* other listing, stopping at its fifth page.
C8_Witness ==
    /\ site = SitePages530
    /\ \E a, b \in 1..Len(passes) :
          /\ passes[a].job = passes[b].job
          /\ passes[a].site_type = "global" /\ passes[a].pages = 3 /\ Len(passes[a].links) = 8
          /\ passes[b].site_type = "kr" /\ passes[b].pages = 5 /\ Len(passes[b].links) = 2

\* The jobs one of whose locale passes met a listing fetch error.
ListingErrorJobs == {j \in JobIds : \E k \in 1..Len(passes) :
                        passes[k].job = j /\ passes[k].ended = "error"}

\* C9, as claimed: a run in which a listing-page fetch raised ends with its job failed.
C9_ListingErrorFailsJob ==
    \A j \in ListingErrorJobs : task[j].pc \in {"notify", "done"} => jobs[j].status = "failed"

\* C9, amended: a pass in which a listing-page fetch raised returns 0, the run
\* goes on (a failed global pass is followed by the kr pass), and the job
\* does not fail: once the run has ended it is completed.
C9_ListingErrorEndsPass ==
    /\ \A k \in 1..Len(passes) : passes[k].ended = "error" => passes[k].returned = 0
    /\ \A j \in ListingErrorJobs :
          /\ jobs[j].status # "failed" /\ task[j].pc # "except"
          /\ task[j].pc \in {"notify", "done"} =>
                /\ jobs[j].status = "completed"
                /\ Len(PassesOf(j)) = 2
                /\ jobs[j].products_count = PassesOf(j)[1].returned + PassesOf(j)[2].returned

\* The global listing could not be fetched; the kr pass of the same run still
\* merged an item and the job is completed with count 1.
C9_Witness ==
    \E j \in ListingErrorJobs :
        /\ task[j].pc = "done" /\ jobs[j].status = "completed"
        /\ PassesOf(j)[1].ended = "error" /\ PassesOf(j)[1].site_type = "global"
        /\ jobs[j].products_count = 1

\* The page of url cannot be fetched, cannot be parsed, or holds no display name.
NoDataPage(url) ==
    \/ ItemPage(url).status # "ok"
    \/ SplitNameColor(FirstKeyword(ItemPage(url).keywords)).product_name = <<>>

\* C10: the step that processes an item whose page fails or holds no name
\* writes no row, leaves the success count and every job row as they were, and
\* goes on to the next URL (or returns the count when it was the last one);
\* once a pass over items has returned, every URL it had to process has an
\* outcome, in order, and it returned the number of its merged items.
C10_ItemSkipped ==
    [][/\ \A j \in JobIds :
            LET t == task[j]
            IN (t.pc = "items" /\ task'[j] # t /\ NoDataPage(t.products_to_scrape[t.i])) =>
                  /\ products' = products /\ images' = images /\ jobs' = jobs
                  /\ Last(outcomes').path \in {"fetch_error", "no_data"}
                  /\ t.i < Len(t.products_to_scrape) =>
                        /\ task'[j].pc = "items" /\ task'[j].i = t.i + 1
                        /\ task'[j].scraped_count = t.scraped_count
                  /\ t.i = Len(t.products_to_scrape) =>
                        /\ task'[j].pc \in {"listing", "finalize"}
                        /\ task'[j].total_scraped = t.total_scraped + t.scraped_count
       /\ \A k \in 1..Len(passes') :
            LET s == passes'[k]
                os == SelectSeq(outcomes', LAMBDA o : o.job = s.job /\ o.site_type = s.site_type)
            IN s.ended = "items" =>
                  /\ [n \in 1..Len(os) |-> os[n].url] = ProductsToScrape(s.links, s.max_products)
                  /\ s.returned = Cardinality({n \in 1..Len(os) :
                                                  os[n].path \in {"created", "updated"}})]_vars

\* In one pass an item page failed, another held no name, a later item was
\* still merged, and the job completed.
C10_Witness ==
    \E a, b, c \in 1..Len(outcomes) :
        /\ a < c /\ b < c
        /\ outcomes[a].job = outcomes[c].job /\ outcomes[b].job = outcomes[c].job
        /\ outcomes[a].site_type = outcomes[c].site_type
        /\ outcomes[b].site_type = outcomes[c].site_type
        /\ outcomes[a].path = "fetch_error" /\ outcomes[b].path = "no_data"
        /\ outcomes[c].path \in {"created", "updated"}
        /\ jobs[outcomes[c].job].status = "completed"

\* The items job j merged (created or updated), as positions in outcomes.
MergedItems(j) ==
    {k \in 1..Len(outcomes) : outcomes[k].job = j /\ outcomes[k].path \in {"created", "updated"}}

\* C11, as claimed: a completed job's products_count is the number of item
\* pages its run extracted and merged, over the global and the kr pass.
C11_CountIsMergedItems ==
    \A j \in JobIds :
        (jobs[j].status = "completed" /\ task[j].pc # "lost") =>
            jobs[j].products_count = Cardinality(MergedItems(j))

\* The POSTs to the indexing service issued by the run of job j, as positions in fetches.
PostsOf(j) == {k \in 1..Len(fetches) : fetches[k].job = j /\ fetches[k].kind = "post"}

\* C12: a run issues at most one POST to the indexing service, only after its
\* job was committed completed with products_count > 0 and carrying that
\* count; a run that has ended issued one exactly when its job is completed
\* with products_count > 0; the step that issues the POST, delivered or not,
\* leaves every job row as it was, and no POST follows it.
C12_NotifyOnce ==
    [][/\ \A j \in JobIds :
            /\ Cardinality(PostsOf(j)') <= 1
            /\ \A k \in PostsOf(j)' :
                  /\ jobs'[j].status = "completed" /\ jobs'[j].products_count > 0
                  /\ fetches'[k].page_num = jobs'[j].products_count
            /\ task'[j].pc = "done" =>
                  (PostsOf(j)' # {} <=>
                      (jobs'[j].status = "completed" /\ jobs'[j].products_count > 0))
            /\ PostsOf(j)' # PostsOf(j) =>
                  /\ jobs' = jobs /\ jobs[j].status = "completed"
                  /\ task'[j].pc = "done"]_vars

\* A run that merged items has ended: its job is completed with a positive
\* count and exactly one POST was issued, after the last fetch of the crawl.
C12_Witness ==
    \E j \in JobIds :
        /\ task[j].pc = "done" /\ jobs[j].status = "completed"
        /\ MergedItems(j) # {} /\ jobs[j].products_count = Cardinality(MergedItems(j))
        /\ PostsOf(j) = {Len(fetches)}

\* C13: a trigger handled while some job has status running is answered with
\* an error, adds no job row, starts no task and leaves every job and task as
\* it was; a trigger handled while no job is running appends exactly one job
\* row, in status pending, and exactly one task, scheduled for that job, and
\* answers with the new job's id. No other step adds a job row or a task.
C13_TriggerExclusive ==
    [][LET handled == response' # response \/ Len(jobs') # Len(jobs) \/ Len(task') # Len(task)
       IN handled =>
            IF \E j \in JobIds : jobs[j].status = "running"
            THEN /\ response'.status_code = 400
                 /\ jobs' = jobs /\ task' = task
            ELSE /\ Len(jobs') = Len(jobs) + 1 /\ Len(task') = Len(jobs')
                 /\ SubSeq(jobs', 1, Len(jobs)) = jobs
                 /\ SubSeq(task', 1, Len(task)) = task
                 /\ Last(jobs').status = "pending"
                 /\ Last(task').pc = "scheduled"
                 /\ response' = [status_code |-> 200, job_id |-> Len(jobs')]]_vars

\* A trigger was rejected because of a running job, and the table still holds
\* that job only.
C13_Witness ==
    /\ response.status_code = 400
    /\ Len(jobs) = 1 /\ jobs[1].status = "running" /\ response.job_id = 1
    /\ Len(task) = 1

\* The requests of the crawl of job j (listing, item and image fetches), in order.
CrawlFetchesOf(j) == SelectSeq(fetches, LAMBDA f : f.job = j /\ f.kind # "post")

OutcomesOf(j) == SelectSeq(outcomes, LAMBDA o : o.job = j)

\* The identity the page of url yields.
Identity(url) == SplitNameColor(FirstKeyword(ItemPage(url).keywords))

\* C14: in one run no request and no merge of the global pass follows a
\* request or merge of the kr pass, and the global pass has returned before
\* the kr pass requests anything; a kr merge of an identity that a global
\* merge of the same run has written takes the update path on that row.
C14_GlobalBeforeKr ==
    \A j \in JobIds :
        LET cf == CrawlFetchesOf(j)
            os == OutcomesOf(j)
        IN /\ \A a, b \in 1..Len(cf) :
                 (a < b /\ cf[a].site_type = "kr") => cf[b].site_type = "kr"
           /\ \A a, b \in 1..Len(os) :
                 (a < b /\ os[a].site_type = "kr") => os[b].site_type = "kr"
           /\ (\E a \in 1..Len(cf) : cf[a].site_type = "kr") =>
                 \E k \in 1..Len(passes) : passes[k].job = j /\ passes[k].site_type = "global"
           /\ \A a, b \in 1..Len(os) :
                 (/\ os[a].site_type = "global" /\ os[b].site_type = "kr"
                  /\ os[a].path \in {"created", "updated"}
                  /\ os[b].path \in {"created", "updated"}
                  /\ Identity(os[a].url) = Identity(os[b].url)) =>
                     /\ a < b
                     /\ os[b].path = "updated"
                     /\ os[b].product_id = os[a].product_id

\* In one run the global pass created an identity and the kr pass, after
\* it, merged the same identity on the update path.
C14_Witness ==
    \E j \in JobIds :
        \E a, b \in 1..Len(OutcomesOf(j)) :
            /\ OutcomesOf(j)[a].site_type = "global" /\ OutcomesOf(j)[a].path = "created"
            /\ OutcomesOf(j)[b].site_type = "kr" /\ OutcomesOf(j)[b].path = "updated"
            /\ OutcomesOf(j)[a].product_id = OutcomesOf(j)[b].product_id
            /\ a < b

\* C15: each of the five locale maps of every Product has exactly the keys
\* global and kr, after every step (so no merge removes a key); the row a
\* step creates holds the extracted values under the locale of the pass and
\* the empty value under the other locale, and has the URL field of the pass's
\* locale set to the item URL and the other URL field unset.
C15_LocaleMapsSeeded ==
    [][/\ \A p \in 1..Len(products') :
            /\ DOMAIN products'[p].price = Locales
            /\ DOMAIN products'[p].reward_points = Locales
            /\ DOMAIN products'[p].description = Locales
            /\ DOMAIN products'[p].material = Locales
            /\ DOMAIN products'[p].size = Locales
       /\ Len(products') > Len(products) =>
            LET t == task[loop]
                l == t.site_type
                o == CHOOSE x \in Locales : x # l
                url == t.products_to_scrape[t.i]
                data == ExtractProductInfo(ItemPage(url), l)
                row == Last(products')
            IN /\ Len(products') = Len(products) + 1
               /\ LocaleValues(row, l) = <<data.price, data.reward_points, data.description,
                                            data.material, FormatSizeData(data.size)>>
               /\ LocaleValues(row, o) = <<"", "", <<>>, "", <<>>>>
               /\ SourceUrl(row, l) = url
               /\ SourceUrl(row, o) = NoUrl]_vars

\* A Product created by the kr pass (global values empty, global URL unset)
\* was merged again: it still has both keys and the empty global values.
C15_Witness ==
    /\ outcomes # <<>>
    /\ Last(outcomes).path = "updated"
    /\ LET row == products[Last(outcomes).product_id]
       IN /\ row.source_global_url = NoUrl /\ row.source_kr_url # NoUrl
          /\ row.price = [global |-> "", kr |-> "20000"]
          /\ row.description["global"] = <<>> /\ row.description["kr"] # <<>>

\* Whether the separator starts at position p of field.
SepAt(field, p) ==
    /\ p >= 1 /\ p + 2 <= Len(field)
    /\ field[p] = " " /\ field[p + 1] = "-" /\ field[p + 2] = " "

Trimmed(s) == s = <<>> \/ (s[1] # " " /\ s[Len(s)] # " ")

\* C16: the name field (the first comma-separated keyword, trimmed) is split
\* at the first separator: the name is the text before it and the color all
\* the text after it, both trimmed; without a separator the name is the whole
\* field and the color is empty; an empty name gives no data and no row,
\* any other name gives a row with that name and color.
C16_IdentitySplit ==
    outcomes # <<>> =>
        LET field == FirstKeyword(ItemPage(Last(outcomes).url).keywords)
            seps == {p \in 1..Len(field) : SepAt(field, p)}
            first == CHOOSE p \in seps : \A q \in seps : p <= q
            name == IF seps = {} THEN field ELSE Strip(SubSeq(field, 1, first - 1))
            shade == IF seps = {} THEN <<>> ELSE Strip(SubSeq(field, first + 3, Len(field)))
        IN /\ Trimmed(name) /\ Trimmed(shade)
           /\ IF name = <<>>
              THEN Last(outcomes).path = "no_data" /\ products = <<>>
              ELSE /\ Last(outcomes).path = "created" /\ Len(products) = 1
                   /\ products[1].product_name = name
                   /\ products[1].color = shade

\* A field with two separators was split: the color holds the second one.
C16_Witness ==
    /\ outcomes # <<>> /\ Len(products) = 1
    /\ ItemPage(Last(outcomes).url).keywords = <<"A", " ", "-", " ", "B", " ", "-", " ", "A">>
    /\ products[1].product_name = <<"A">>
    /\ products[1].color = <<"B", " ", "-", " ", "A">>

\* C17, as claimed: the listing requests of the first pass of a run go to the
\* seed recorded as target_url on its job: the override of the trigger
\* request when it carried one, the configured default otherwise.
C17_SeedIsTargetUrl ==
    \A k \in 1..Len(fetches) :
        (fetches[k].kind = "listing" /\ fetches[k].site_type = PassOrder[1]) =>
            fetches[k].url = jobs[fetches[k].job].target_url

\* C18, as claimed: every fetch of a crawl (with the delay after it) is a
\* suspension point: when the fetch has been made the event loop is free to
\* run other work, such as the handler of a trigger request.
C18_FetchesYield ==
    [][(Len(fetches') > Len(fetches) /\ Last(fetches').kind # "post") => loop' = 0]_vars

\* C19: the step in which a listing fetch of the global pass fails ends that
\* pass with count 0 and starts the kr pass of the same run at its page 1,
\* leaving the job row and the tables as they were; when the run has ended
\* its kr pass has returned, every item the kr pass had to process has an
\* outcome, and the job is completed with the count of the kr pass.
C19_GlobalErrorKrRuns ==
    [][/\ \A j \in JobIds :
            (/\ Len(passes') > Len(passes)
             /\ Last(passes').job = j /\ Last(passes').site_type = "global"
             /\ Last(passes').ended = "error") =>
                /\ Last(passes').returned = 0
                /\ task'[j].pc = "listing" /\ task'[j].site_type = "kr"
                /\ task'[j].page_num = 1 /\ task'[j].all_product_links = <<>>
                /\ task'[j].total_scraped = 0
                /\ jobs' = jobs /\ products' = products /\ images' = images
       /\ \A j \in JobIds :
            LET ps == SelectSeq(passes', LAMBDA s : s.job = j)
                os == SelectSeq(outcomes', LAMBDA o : o.job = j /\ o.site_type = "kr")
            IN (/\ task'[j].pc \in {"notify", "done"}
                /\ ps # <<>> /\ ps[1].site_type = "global" /\ ps[1].ended = "error") =>
                   /\ Len(ps) = 2 /\ ps[2].site_type = "kr"
                   /\ jobs'[j].status = "completed"
                   /\ jobs'[j].products_count = ps[2].returned
                   /\ ps[2].ended = "items" =>
                         /\ [n \in 1..Len(os) |-> os[n].url]
                               = ProductsToScrape(ps[2].links, ps[2].max_products)
                         /\ ps[2].returned = Cardinality({n \in 1..Len(os) :
                                os[n].path \in {"created", "updated"}})]_vars

\* After the global listing failed on its first page, the kr pass of the same
\* run harvested its listing and created a Product from its item.
C19_Witness ==
    \E j \in JobIds :
        /\ PassesOf(j) # <<>>
        /\ PassesOf(j)[1].site_type = "global" /\ PassesOf(j)[1].ended = "error"
        /\ \E k \in 1..Len(outcomes) :
              /\ outcomes[k].job = j /\ outcomes[k].site_type = "kr"
              /\ outcomes[k].path = "created"
              /\ products[outcomes[k].product_id].source_kr_url = U(K, "p1")
        /\ Len(PassesOf(j)) = 2 /\ PassesOf(j)[2].returned = 1

\* Whether the row of a job has reached a terminal status.
Terminal(job) == job.status \in {"completed", "failed"}

\* C20: the step that marks a job failed sets completed_at and leaves
\* products_count at the value the row was created with; in every state a job
\* has completed_at set exactly when its status is completed or failed.
C20_FailedAndTimestamps ==
    [][/\ \A j \in JobIds : jobs[j].completed_at <=> Terminal(jobs[j])
       /\ \A j \in 1..Len(jobs') : jobs'[j].completed_at <=> Terminal(jobs'[j])
       /\ \A j \in JobIds :
            (jobs'[j].status = "failed" /\ jobs[j].status # "failed") =>
                /\ task[j].pc = "except"
                /\ jobs'[j].completed_at
                /\ jobs'[j].products_count = jobs[j].products_count
                /\ jobs'[j].products_count = 0]_vars

\* The constructor of the crawler raised: the job is failed with its
\* completion time set and count 0, and no request was made.
C20_Witness ==
    \E j \in JobIds :
        /\ jobs[j].status = "failed" /\ jobs[j].completed_at
        /\ jobs[j].products_count = 0
        /\ task[j].pc = "done" /\ fetches = <<>>

\* The absolute URLs of the link markers of listing pages 1..n of a locale, in
\* page order and document order, repetitions included.
Discovered(site_type, n) ==
    LET D[k \in 0..n] ==
            IF k = 0 THEN <<>>
            ELSE LET ms == SelectSeq(ListingPage(site_type, k).markers,
                                     LAMBDA m : m.kind # "nolink")
                 IN D[k - 1] \o [i \in 1..Len(ms) |-> FullUrl(ms[i], site_type)]
    IN D[n]

\* s without every element that occurred earlier in it.
FirstSeen(s) ==
    LET F[k \in 0..Len(s)] ==
            IF k = 0 THEN <<>>
            ELSE IF \E i \in 1..(k - 1) : s[i] = s[k] THEN F[k - 1] ELSE Append(F[k - 1], s[k])
    IN F[Len(s)]

\* The frontier of pass (j, l): the list its summary holds, or the list of the
\* task while the pass is under way.
LinksOf(j, l) ==
    LET done == {k \in 1..Len(passes) : passes[k].job = j /\ passes[k].site_type = l}
    IN IF done # {} THEN passes[CHOOSE k \in done : TRUE].links
       ELSE IF task[j].site_type = l THEN task[j].all_product_links ELSE <<>>

ItemFetchesOf(j, l) ==
    SelectSeq(fetches, LAMBDA f : f.job = j /\ f.site_type = l /\ f.kind = "item")

\* C21: the URL list of a frontier holds no URL twice and lists the URLs in
\* order of first discovery (page order, then document order); the item pages
\* of a pass are requested in that order, the merges happen in the order of
\* the requests, and the images of an item are requested before the next item.
C21_FrontierOrder ==
    /\ \A j \in JobIds :
          task[j].pc = "listing" =>
              task[j].all_product_links
                  = FirstSeen(Discovered(task[j].site_type, task[j].page_num - 1))
    /\ \A k \in 1..Len(passes) :
          passes[k].links = FirstSeen(Discovered(passes[k].site_type, passes[k].pages))
    /\ \A j \in JobIds : \A l \in Locales :
          LET links == LinksOf(j, l)
              itf == ItemFetchesOf(j, l)
              os == SelectSeq(outcomes, LAMBDA o : o.job = j /\ o.site_type = l)
          IN /\ \A a, b \in 1..Len(links) : links[a] = links[b] => a = b
             /\ Len(itf) <= Len(links)
             /\ \A n \in 1..Len(itf) : itf[n].url = links[n]
             /\ [n \in 1..Len(os) |-> os[n].url] = [n \in 1..Len(itf) |-> itf[n].url]
    /\ \A n \in 1..Len(fetches) :
          fetches[n].kind = "image" =>
              /\ n > 1
              /\ fetches[n - 1].kind \in {"item", "image"}
              /\ fetches[n - 1].job = fetches[n].job

\* A pass whose listing showed one item under three hrefs on two pages, and a
\* second item after it, has requested both item pages in discovery order.
C21_Witness ==
    /\ site = SiteDuplicates
    /\ \E j \in JobIds :
          /\ LinksOf(j, "global") = <<U(G, "p1"), U(G, "p2")>>
          /\ Len(Discovered("global", 2)) = 4
          /\ Len(ItemFetchesOf(j, "global")) = 2

\* C22: a pass with cap N > 0 processes the first min(N, number of frontier
\* URLs) URLs of its frontier, in order, and no other; a pass without cap
\* processes all of them; the cap holds for each pass on its own, so a run
\* with cap N counts at most 2N.
C22_CapPerPass ==
    /\ \A k \in 1..Len(passes) :
          LET s == passes[k]
              os == SelectSeq(outcomes, LAMBDA o : o.job = s.job /\ o.site_type = s.site_type)
              n == IF s.max_products > 0 /\ s.max_products < Len(s.links)
                   THEN s.max_products ELSE Len(s.links)
          IN s.ended = "items" =>
                /\ [i \in 1..Len(os) |-> os[i].url] = [i \in 1..n |-> s.links[i]]
                /\ s.returned <= n
    /\ \A j \in JobIds :
          (task[j].pc # "lost" /\ task[j].max_products > 0) =>
              /\ Len(OutcomesOf(j)) <= 2 * task[j].max_products
              /\ jobs[j].products_count <= 2 * task[j].max_products

\* A run with cap 2 has ended: its global pass processed 2 of its 8 URLs, its
\* kr pass 2 more, 4 items for one run.
C22_Witness ==
    \E j \in JobIds :
        /\ task[j].max_products = 2 /\ task[j].pc = "done"
        /\ Len(LinksOf(j, "global")) = 8
        /\ Len(ItemFetchesOf(j, "global")) = 2
        /\ Len(OutcomesOf(j)) = 4

\* C27: a pass in which the fetch of listing page k > 1 failed after earlier
\* pages had given links requests no item page, has no outcome, wrote no row
\* (the step of the failure leaves both tables as they were) and returned 0.
C27_HarvestDiscarded ==
    [][\A k \in 1..Len(passes') :
          LET s == passes'[k]
          IN (s.ended = "error" /\ s.pages > 1) =>
                /\ s.returned = 0
                /\ \A n \in 1..Len(fetches') :
                      ~(/\ fetches'[n].job = s.job /\ fetches'[n].site_type = s.site_type
                        /\ fetches'[n].kind \in {"item", "image"})
                /\ \A n \in 1..Len(outcomes') :
                      ~(outcomes'[n].job = s.job /\ outcomes'[n].site_type = s.site_type)
                /\ k > Len(passes) =>
                      /\ products' = products /\ images' = images
                      /\ task'[s.job].total_scraped = task[s.job].total_scraped]_vars

\* A kr pass that had harvested one link on page 1 failed on page 2; the run
\* has ended and no kr item page was requested.
C27_Witness ==
    \E k \in 1..Len(passes) :
        /\ passes[k].ended = "error" /\ passes[k].pages = 2
        /\ Len(passes[k].links) = 1 /\ passes[k].site_type = "kr"
        /\ task[passes[k].job].pc = "done"
        /\ ItemFetchesOf(passes[k].job, "kr") = <<>>

\* C28: a trigger handled while no job has status running is accepted, also
\* when an earlier job is still pending; a pending job has a task that has
\* not started, and that task starts once the event loop is idle (its first
\* step is enabled), whatever other jobs are pending.
C28_PendingNotExclusive ==
    [][/\ (/\ \E r \in Requests : StartScraping(r.url, r.max_products)
           /\ \A j \in JobIds : jobs[j].status # "running") =>
              /\ Len(jobs') = Len(jobs) + 1
              /\ response'.status_code = 200
       /\ \A j \in JobIds :
            jobs[j].status = "pending" =>
                /\ task[j].pc = "scheduled"
                /\ loop = 0 => ENABLED RunBegin(j)]_vars

\* Two jobs are pending at once, each with a task waiting to start.
C28_Witness ==
    \E j, k \in JobIds :
        /\ j < k
        /\ jobs[j].status = "pending" /\ jobs[k].status = "pending"
        /\ task[j].pc = "scheduled" /\ task[k].pc = "scheduled"
        /\ response = [status_code |-> 200, job_id |-> k]

\* The calls that created a Product, as positions in outcomes.
CreatedCalls == {n \in 1..Len(outcomes) : outcomes[n].path = "created"}

\* The image URLs extracted from the page of a call, and the positions in
\* that list of the images that download and verify.
UrlsOf(o) == ExtractImageUrls(ItemPage(o.url))

Verified(o) == {k \in 1..Len(UrlsOf(o)) : UrlsOf(o)[k].fetch = "ok"}

\* The rows of product_images of Product p, in table order.
ImagesOf(p) == SelectSeq(images, LAMBDA r : r.product_id = p)

ImageFetchesOf(o) ==
    SelectSeq(fetches, LAMBDA f : f.kind = "image" /\ f.site_type = o.site_type)

\* C23: the pipeline requests every extracted image URL, in order, whatever
\* happened to the earlier ones; after a commit that succeeded the Product
\* has one row for each image that downloaded and verified and none for the
\* others, each row with the zero-based position of its URL in the extracted
\* list as order index, the rows in increasing order of index.
C23_ImageOrder ==
    \A n \in CreatedCalls :
        LET o == outcomes[n]
            urls == UrlsOf(o)
            rows == ImagesOf(o.product_id)
            imf == ImageFetchesOf(o)
        IN /\ [k \in 1..Len(imf) |-> imf[k].url] = [k \in 1..Len(urls) |-> U("img", urls[k].ref)]
           /\ o.commit_ok =>
                 /\ Len(rows) = Cardinality(Verified(o))
                 /\ \A a \in 1..Len(rows) :
                       /\ rows[a].image_order + 1 \in Verified(o)
                       /\ rows[a].image_data = urls[rows[a].image_order + 1].ref
                 /\ \A a, b \in 1..Len(rows) :
                       a < b => rows[a].image_order < rows[b].image_order

\* Of three extracted images the second failed to download: all three were
\* requested and the rows have the indices 0 and 2.
C23_Witness ==
    /\ CreatedCalls # {}
    /\ Len(SelectSeq(fetches, LAMBDA f : f.kind = "image")) = 3
    /\ images = <<[product_id |-> 1, image_data |-> "i1", image_order |-> 0],
                  [product_id |-> 1, image_data |-> "i3", image_order |-> 2]>>

C25_AbsoluteKept ==
    \A n \in CreatedCalls :
        LET o == outcomes[n]
            kept == SelectSeq(ItemPage(o.url).imgs,
                              LAMBDA i : i.form \in {"protocol_relative", "absolute"})
            imf == ImageFetchesOf(o)
        IN [k \in 1..Len(imf) |-> imf[k].url] = [k \in 1..Len(kept) |-> U("img", kept[k].ref)]

\* C26: a call of the crawler (create path, update path, image pipeline)
\* leaves indexed, indexed_at and scraped_at of every existing Product as
\* they were, also when it changes locale values of an indexed Product.
C26_IndexFieldsUntouched ==
    [][outcomes' # outcomes =>
          \A p \in 1..Len(products) :
              /\ products'[p].indexed = products[p].indexed
              /\ products'[p].indexed_at = products[p].indexed_at
              /\ products'[p].scraped_at = products[p].scraped_at]_vars

\* A Product indexed after its creation was merged from the other locale: it
\* has new locale values and is still marked indexed, with the old time.
C26_Witness ==
    /\ Len(outcomes) = 2 /\ Last(outcomes).path = "updated"
    /\ products[1].indexed /\ products[1].indexed_at = 1
    /\ products[1].price = [global |-> "$10", kr |-> "10000"]
    /\ products[1].scraped_at.url = outcomes[1].url

\* C30: no step adds an image row to a Product that existed before the step;
\* a Product created while every image download failed, or while the commit of
\* its image rows failed, has no image row.
C30_ImagesNeverRetried ==
    [][/\ Len(images') >= Len(images)
       /\ \A k \in 1..Len(images') :
             images'[k].product_id <= Len(products) => (k <= Len(images) /\ images'[k] = images[k])
       /\ \A n \in 1..Len(outcomes') :
             LET o == outcomes'[n]
             IN (o.path = "created" /\ (~o.commit_ok \/ Verified(o) = {})) =>
                    \A k \in 1..Len(images') : images'[k].product_id # o.product_id]_vars

\* A Product whose image commit had failed was merged again from a page with
\* a good image while commits succeeded: it still has no image.
C30_Witness ==
    /\ Len(outcomes) = 2
    /\ outcomes[1].path = "created" /\ ~outcomes[1].commit_ok
    /\ Verified(outcomes[1]) # {}
    /\ outcomes[2].path = "updated" /\ outcomes[2].commit_ok
    /\ Verified(outcomes[2]) # {}
    /\ images = <<>>

\* Whether the listing of a locale has a page that is served without markers.
ListingEnds(l) ==
    \E n \in 1..(Len(site.listing[l]) + 1) :
        ListingPage(l, n).status = "ok" /\ ListingPage(l, n).markers = <<>>

\* Whether every page of the listing of a locale is served with markers.
Endless(l) ==
    \A n \in 1..(Len(site.listing[l]) + 1) :
        ListingPage(l, n).status = "ok" /\ ListingPage(l, n).markers # <<>>

\* C29: on a storefront where the listing of each locale has a page without
\* markers, every job that a crawl task has marked running is eventually
\* completed or failed; a crawl task that requests a listing whose every page
\* has markers stays in the pagination loop of that pass, and its job stays
\* running.
C29_RunningEnds ==
    /\ \A j \in 1..MaxJobs :
          (/\ j \in JobIds
           /\ jobs[j].status = "running" /\ task[j].pc # "lost"
           /\ \A l \in Locales : ListingEnds(l))
             ~> (j \in JobIds /\ Terminal(jobs[j]))
    /\ [][\A j \in JobIds :
             (task[j].pc = "listing" /\ Endless(task[j].site_type)) =>
                 /\ task'[j].pc = "listing" /\ task'[j].site_type = task[j].site_type
                 /\ jobs'[j].status = "running"]_vars

\* A run that requested more than one page of each listing has ended.
C29_Witness ==
    \E j \in JobIds :
        /\ \A l \in Locales : ListingEnds(l) /\ Len(ListingFetchesOf(j, l)) >= 2
        /\ task[j].pc = "done"
        /\ Terminal(jobs[j])

====
